---- MODULE Spec2Model ----
(***************************************************************************)
(* The binary mesh compiler (tools/compile_mesh.py) and its validator      *)
(* (tools/validate_mesh.py) as a state machine.                            *)
(*                                                                         *)
(* One behaviour is one invocation of compile_mesh on a source file, the   *)
(* exit of its process, runs of validate_cobj_file on the destination (as  *)
(* written, or with a corrupted vertex count) and of validate_obj_file on  *)
(* the source, and a second invocation on the same source and destination. *)
(* A file is a sequence of 4-byte words: every item of the two struct      *)
(* formats ('4s', 'I', 'f') is four bytes wide and every read of the       *)
(* validator is a multiple of four bytes.                                  *)
(*                                                                         *)
(* CliSpec is the command-line layer: one asset of the build pipeline      *)
(* (tools/build_pipeline.py), which runs the compiler and then the         *)
(* validator as subprocesses, and a run of the validator's own main().     *)
(***************************************************************************)
EXTENDS Integers, Sequences, FiniteSets, TLC

\* ------------------------------------------------------------------ bounds
MaxFaces == 2      \* face lines in a source of the welding family
MaxArity == 5      \* reference tokens on one face line
MaxPos == 2        \* v lines in a source of the parsing family
MaxAttr == 1       \* vn lines, and vt lines, in a source of the parsing family
MaxCount == 1      \* vertex count in the header of a hand-made binary
MaxMore == 1       \* amount added to the vertex count of a corrupted header

\* ------------------------------------------------------------------ values
\* A float is n / sqrt(d2) when k = "fin"; k = "nan" is NaN, "inf" an infinity,
\* "huge" a finite double so large that its square overflows (1e200).
Fl(k, n, d2) == [k |-> k, n |-> n, d2 |-> d2]
F(n) == Fl("fin", n, 1)
NaN == Fl("nan", 0, 1)
IsNaN(x) == x.k = "nan"

\* float(s) of the numeric field strings the sources use; any other string
\* raises ValueError.
FloatLits == {"-1", "0", "1", "2", "nan", "1e200"}
IsFloatLit(s) == s \in FloatLits
FloatOf(s) ==
  CASE s = "-1" -> F(-1)
    [] s = "0" -> F(0)
    [] s = "1" -> F(1)
    [] s = "2" -> F(2)
    [] s = "nan" -> NaN
    [] s = "1e200" -> Fl("huge", 1, 1)

\* int(s) of the index field strings the face tokens use; any other string
\* raises ValueError.
IntLits == {"-1", "0", "1", "2", "3", "4", "5"}
IsIntLit(s) == s \in IntLits
IntOf(s) ==
  CASE s = "-1" -> -1
    [] s = "0" -> 0
    [] s = "1" -> 1
    [] s = "2" -> 2
    [] s = "3" -> 3
    [] s = "4" -> 4
    [] s = "5" -> 5

\* IEEE comparisons: every ordered comparison with a NaN is false.
FLe(a, b) == ~IsNaN(a) /\ ~IsNaN(b) /\ a.n <= b.n
FGt(a, b) == ~IsNaN(a) /\ ~IsNaN(b) /\ a.n > b.n

\* ------------------------------------------------------------------ helpers
Take(s, n) == SubSeq(s, 1, IF Len(s) < n THEN Len(s) ELSE n)
SeqsUpTo(S, n) == UNION {[1..k -> S] : k \in 0..n}
Range(s) == {s[i] : i \in DOMAIN s}

RECURSIVE SumLens(_)
SumLens(ss) == IF ss = <<>> THEN 0 ELSE Len(Head(ss)) + SumLens(Tail(ss))


\* ------------------------------------------------------------------ sources
\* A source line after line.strip().split(): its leading token and the rest.
\* A face token is kept as its fields, vertex_str.split('/'); split is
\* injective, so two tokens are the same string iff their fields are equal.
VLine(kind, nums) == [kind |-> kind, nums |-> nums, toks |-> <<>>]
FLine(toks) == [kind |-> "f", nums |-> <<>>, toks |-> toks]
Comment == [kind |-> "#", nums |-> <<>>, toks |-> <<>>]

\* Token rings: a face of arity a is the first a tokens of a ring, repeated
\* cyclically when the ring is shorter.
Rings ==
  { << <<"1","1">>, <<"2","2">>, <<"3","3">>, <<"4","4">> >>,
    << <<"1">>, <<"1","","">>, <<"2">>, <<"1","">>, <<"3">> >>,
    << <<"3">>, <<"2">>, <<"1">>, <<"3">> >>,
    << <<"1","1","1">>, <<"2","","1">>, <<"","1">>, <<"0">> >>,
    << <<"-1">>, <<"2">>, <<"5">>, <<"1">> >>,
    << <<"4">>, <<"x">>, <<"2">> >> }
FaceOf(ring, a) == [i \in 1..a |-> ring[((i - 1) % Len(ring)) + 1]]
FaceChoices == {FaceOf(r, a) : r \in Rings, a \in 0..MaxArity}

\* The welding family: a unit quad with one normal and four texcoords, and
\* every list of at most MaxFaces faces.
QuadLines ==
  << Comment,
     VLine("v", <<"0","0","0">>), VLine("v", <<"1","0","0">>),
     VLine("v", <<"1","1","0">>), VLine("v", <<"0","1","0">>),
     VLine("vn", <<"0","0","1">>),
     VLine("vt", <<"0","0">>), VLine("vt", <<"1","0">>),
     VLine("vt", <<"1","1">>), VLine("vt", <<"0","1">>) >>
AsFaceLines(fs) == [i \in DOMAIN fs |-> FLine(fs[i])]
WeldSources == {QuadLines \o AsFaceLines(fs) : fs \in SeqsUpTo(FaceChoices, MaxFaces)}

\* The parsing family: every list of at most MaxPos position lines and at most
\* MaxAttr normal and texcoord lines (good, NaN, short and malformed ones),
\* with one of a few face lists.
VChoices ==
  { <<"0","0","0">>, <<"1","2","0">>, <<"nan","0","1">>, <<"1","0">>, <<"0","x","0">> }
VnChoices == { <<"0","0","2">>, <<"0","0","0">>, <<"x","0","0">> }
VtChoices == { <<"1","0">>, <<"1">> }
ParseFaceLists ==
  { <<>>,
    << <<<<"1">>, <<"2">>, <<"1","">>>> >>,
    << <<<<"1","1","1">>, <<"2","","1">>, <<"1","1">>>> >>,
    << <<<<"1">>, <<"2">>, <<"1">>, <<"2">>, <<"1">>>> >> }
AsLines(kind, ns) == [i \in DOMAIN ns |-> VLine(kind, ns[i])]
ParseSources ==
  { AsLines("v", vs) \o AsLines("vn", ns) \o AsLines("vt", ts) \o AsFaceLines(fs) :
      vs \in SeqsUpTo(VChoices, MaxPos), ns \in SeqsUpTo(VnChoices, MaxAttr),
      ts \in SeqsUpTo(VtChoices, MaxAttr), fs \in ParseFaceLists }

\* The validation family: a triangle or three coincident positions, normals
\* of unit, zero and overflowing length, one face of position-only tokens.
ObjPositions ==
  { << <<"0","0","0">>, <<"1","0","0">>, <<"0","1","0">> >>,
    << <<"1","2","0">>, <<"1","2","0">>, <<"1","2","0">> >> }
ObjVnChoices == { <<"0","1","0">>, <<"0","0","0">>, <<"1e200","0","0">> }
ObjFaces == { << <<"1">>, <<"2">>, <<"3">> >>, << <<"1">>, <<"1">>, <<"1">> >> }
ObjSources ==
  { AsLines("v", vs) \o AsLines("vn", ns) \o AsFaceLines(<<f>>) :
      vs \in ObjPositions, ns \in SeqsUpTo(ObjVnChoices, MaxAttr), f \in ObjFaces }

\* The tangent family: one textured triangle in the xy-plane whose three
\* corners share one normal, of unit length or not, across or along the
\* triangle's u direction.
TangentVnChoices == { <<"0","0","1">>, <<"0","0","2">>, <<"1","0","2">>, <<"2","0","0">> }
TangentFace == << <<"1","1","1">>, <<"2","2","1">>, <<"3","3","1">> >>
TangentSources ==
  { AsLines("v", << <<"0","0","0">>, <<"1","0","0">>, <<"0","1","0">> >>)
    \o AsLines("vn", <<n>>)
    \o AsLines("vt", << <<"0","0">>, <<"1","0">>, <<"0","1">> >>)
    \o AsFaceLines(<<TangentFace>>) : n \in TangentVnChoices }

Sources == WeldSources \cup ParseSources \cup ObjSources \cup TangentSources

\* ------------------------------------------------------------------ files
NoFile == [exists |-> FALSE, words |-> <<>>]
FileOf(ws) == [exists |-> TRUE, words |-> ws]
WordBytes == 4
FileSize(f) == WordBytes * Len(f.words)


\* ------------------------------------------------------------------ parser
\* list(map(float, parts[1:n+1])): the first n numeric fields, however many
\* the line has; ValueError when one of them is no float literal.
BadFloats(nums, n) == \E i \in DOMAIN Take(nums, n) : ~IsFloatLit(nums[i])
Floats(nums, n) == [i \in DOMAIN Take(nums, n) |-> FloatOf(nums[i])]

\* ------------------------------------------------------------------ welder
\* x[i] of a Python list for a 0-based, possibly negative, index.
InList(xs, i) == -Len(xs) <= i /\ i < Len(xs)
ListAt(xs, i) == IF i >= 0 THEN xs[i + 1] ELSE xs[Len(xs) + i + 1]

DefaultPos == <<F(0), F(0), F(0)>>
\* Faulty variant: +Z as the default normal.
DefaultNormZ == <<F(0), F(0), F(1)>>
DefaultNorm == <<F(0), F(1), F(0)>>
DefaultUV == <<F(0), F(0)>>

\* (vertex_str.split('/') + [''] * 3)[:3]
Fields(tok) == SubSeq(tok \o <<"", "", "">>, 1, 3)
\* int(x) - 1 if x else -1
Idx(x) == IF x = "" THEN -1 ELSE IntOf(x) - 1

\* The triangulation of one face line: a triangle as it is, a quad as the fan
\* (0,1,2),(0,2,3), any other arity skipped.
Retained(face) == Len(face) \in {3, 4}
\* Faulty variants: a quad kept as its four tokens; a quad split along the other
\* diagonal; a larger polygon cut down to its first triangle instead of skipped;
\* a quad fanned from its last corner.
TriangulateNoSplit(face) == IF Len(face) \in {3, 4} THEN face ELSE <<>>
TriangulateOtherDiagonal(face) ==
  IF Len(face) = 3 THEN face
  ELSE IF Len(face) = 4
       THEN <<face[1], face[2], face[4], face[2], face[3], face[4]>>
       ELSE <<>>
TriangulateFirstTriangle(face) ==
  IF Len(face) = 3 THEN face
  ELSE IF Len(face) = 4
       THEN <<face[1], face[2], face[3], face[1], face[3], face[4]>>
       ELSE IF Len(face) > 4 THEN SubSeq(face, 1, 3) ELSE <<>>
TriangulateReversedFan(face) ==
  IF Len(face) = 3 THEN face
  ELSE IF Len(face) = 4
       THEN <<face[4], face[1], face[2], face[4], face[2], face[3]>>
       ELSE <<>>
Triangulate(face) ==
  IF Len(face) = 3 THEN face
  ELSE IF Len(face) = 4
       THEN <<face[1], face[2], face[3], face[1], face[3], face[4]>>
       ELSE <<>>

\* `vertex_str in vertex_map`; the faulty variant never finds a token.
KnownNever(vm, tok) == FALSE
Known(vm, tok) == tok \in DOMAIN vm

\* `new_index = len(final_vertices)`; the faulty variant counts from one.
NewIndexFromOne(fv) == Len(fv) + 1
NewIndex(fv) == Len(fv)

\* One reference token against the welder state w = [fv, fi, vm, err]: a known
\* token appends its index; a new one is mapped and indexed first, then
\* resolved, so an exception leaves the map and the index buffer one entry
\* ahead of the vertex list.
WeldToken(w, tok) ==
  IF Known(w.vm, tok)
  THEN [w EXCEPT !.fi = Append(@, w.vm[tok])]
  ELSE LET new_index == NewIndex(w.fv)
           w1 == [w EXCEPT !.vm = (tok :> new_index) @@ @, !.fi = Append(@, new_index)]
           fs == Fields(tok)
       IN IF \E i \in 1..3 : fs[i] # "" /\ ~IsIntLit(fs[i])
          THEN [w1 EXCEPT !.err = "ValueError"]
          ELSE LET v_idx == Idx(fs[1])
                   vt_idx == Idx(fs[2])
                   vn_idx == Idx(fs[3])
               IN IF \/ v_idx # -1 /\ ~InList(w.tp, v_idx)
                     \/ vn_idx # -1 /\ ~InList(w.tn, vn_idx)
                     \/ vt_idx # -1 /\ ~InList(w.tu, vt_idx)
                  THEN [w1 EXCEPT !.err = "IndexError"]
                  ELSE [w1 EXCEPT !.fv = Append(@,
                         [pos |-> IF v_idx # -1 THEN ListAt(w.tp, v_idx) ELSE DefaultPos,
                          norm |-> IF vn_idx # -1 THEN ListAt(w.tn, vn_idx) ELSE DefaultNorm,
                          uv |-> IF vt_idx # -1 THEN ListAt(w.tu, vt_idx) ELSE DefaultUV])]

RECURSIVE WeldTokens(_, _)
WeldTokens(w, toks) ==
  IF toks = <<>> \/ w.err # "" THEN w
  ELSE WeldTokens(WeldToken(w, Head(toks)), Tail(toks))

\* The body of `for face in face_lines` for one face.
WeldFace(w, face) == WeldTokens(w, Triangulate(face))


\* ------------------------------------------------------------------ tangents
\* Extended rationals for the float arithmetic of the tangent calculation:
\* n/d when k = "fin", else +inf ("pinf"), -inf ("ninf") or NaN ("nan").
\* Rounding to float32 is left out: the values are exact.
Abs(x) == IF x < 0 THEN -x ELSE x
RECURSIVE Gcd(_, _)
Gcd(a, b) == IF b = 0 THEN a ELSE Gcd(b, a % b)
Rat(n, d) ==
  LET g == Gcd(Abs(n), d) IN
  IF n = 0 THEN [k |-> "fin", n |-> 0, d |-> 1]
  ELSE [k |-> "fin", n |-> n \div g, d |-> d \div g]
XInf(neg) == [k |-> IF neg THEN "ninf" ELSE "pinf", n |-> 0, d |-> 1]
XNaN == [k |-> "nan", n |-> 0, d |-> 1]
OfFloat(x) == IF x.k = "fin" THEN Rat(x.n, 1) ELSE XNaN
XIsInf(a) == a.k \in {"pinf", "ninf"}
XNeg(a) ==
  CASE a.k = "fin" -> Rat(-a.n, a.d)
    [] a.k = "pinf" -> XInf(TRUE)
    [] a.k = "ninf" -> XInf(FALSE)
    [] OTHER -> XNaN
XAdd(a, b) ==
  IF a.k = "nan" \/ b.k = "nan" THEN XNaN
  ELSE IF XIsInf(a) /\ XIsInf(b) THEN (IF a.k = b.k THEN a ELSE XNaN)
  ELSE IF XIsInf(a) THEN a
  ELSE IF XIsInf(b) THEN b
  ELSE Rat(a.n * b.d + b.n * a.d, a.d * b.d)
XSub(a, b) == XAdd(a, XNeg(b))
XNegative(a) == a.k = "ninf" \/ (a.k = "fin" /\ a.n < 0)
XMul(a, b) ==
  IF a.k = "nan" \/ b.k = "nan" THEN XNaN
  ELSE IF XIsInf(a) \/ XIsInf(b)
       THEN (IF (a.k = "fin" /\ a.n = 0) \/ (b.k = "fin" /\ b.n = 0) THEN XNaN
             ELSE XInf(XNegative(a) # XNegative(b)))
  ELSE Rat(a.n * b.n, a.d * b.d)
XZero == Rat(0, 1)
XVec(v) == [i \in DOMAIN v |-> OfFloat(v[i])]
VSub(u, v) == [i \in DOMAIN u |-> XSub(u[i], v[i])]
VAdd(u, v) == [i \in DOMAIN u |-> XAdd(u[i], v[i])]
VScale(c, v) == [i \in DOMAIN v |-> XMul(c, v[i])]
Dot3(u, v) == XAdd(XAdd(XMul(u[1], v[1]), XMul(u[2], v[2])), XMul(u[3], v[3]))

\* 1.0 / (delta_uv1[0] * delta_uv2[1] - delta_uv2[0] * delta_uv1[1]) with the
\* sign of a zero denominator: a product is -0 when it is zero and a factor is
\* negative, and x - y is -0 only for (-0) - (+0).
NegZeroProd(a, b) ==
  XMul(a, b) = XZero /\ (XNegative(a) # XNegative(b))
InvDet(du1, du2) ==
  LET x == XMul(du1[1], du2[2])
      y == XMul(du2[1], du1[2])
      det == XSub(x, y)
  IN IF det.k # "fin" THEN XNaN
     ELSE IF det.n = 0
          THEN XInf(x = XZero /\ NegZeroProd(du1[1], du2[2]) /\ ~NegZeroProd(du2[1], du1[2]))
          ELSE IF det.n > 0 THEN Rat(det.d, det.n) ELSE Rat(-det.d, -det.n)

\* The raw tangent of the triangle (i1, i2, i3), 0-based indices.
TriTangent(positions, uvs, i1, i2, i3) ==
  LET edge1 == VSub(XVec(positions[i2 + 1]), XVec(positions[i1 + 1]))
      edge2 == VSub(XVec(positions[i3 + 1]), XVec(positions[i1 + 1]))
      delta_uv1 == VSub(XVec(uvs[i2 + 1]), XVec(uvs[i1 + 1]))
      delta_uv2 == VSub(XVec(uvs[i3 + 1]), XVec(uvs[i1 + 1]))
      f == InvDet(delta_uv1, delta_uv2)
  IN VScale(f, VSub(VScale(delta_uv2[2], edge1), VScale(delta_uv1[2], edge2)))

\* The accumulation loop, lines 16-38: the sum into vertex v (0-based) of the
\* raw tangents of the triangles that hold it, once per corner.
RECURSIVE Accumulate(_, _, _, _, _)
Accumulate(positions, uvs, indices, t, v) ==
  IF t > Len(indices) \div 3 THEN <<XZero, XZero, XZero>>
  ELSE LET i1 == indices[3 * t - 2]
           i2 == indices[3 * t - 1]
           i3 == indices[3 * t]
           rest == Accumulate(positions, uvs, indices, t + 1, v)
           tan == TriTangent(positions, uvs, i1, i2, i3)
           once == IF i1 = v THEN tan ELSE <<XZero, XZero, XZero>>
           twice == IF i2 = v THEN VAdd(once, tan) ELSE once
           thrice == IF i3 = v THEN VAdd(twice, tan) ELSE twice
       IN VAdd(thrice, rest)


\* norm > 1e-6 for a finite squared norm n/d: sq * 10^12 > 1. Every squared
\* norm the bounded sources reach has a denominator below 10^6, so one factor
\* of 10^6 decides the comparison within 32-bit integers.
EpsInv == 1000000
AboveEps(sq) == sq.n * EpsInv > sq.d

Lcm(a, b) == (a * b) \div Gcd(a, b)
\* t / |t| for a finite non-zero t: each component as n / sqrt(d2).
Normalized(t) ==
  LET l == Lcm(Lcm(t[1].d, t[2].d), t[3].d)
      s == [i \in 1..3 |-> t[i].n * (l \div t[i].d)]
      g == Gcd(Gcd(Abs(s[1]), Abs(s[2])), Abs(s[3]))
      r == [i \in 1..3 |-> s[i] \div g]
      d2 == r[1] * r[1] + r[2] * r[2] + r[3] * r[3]
  IN [i \in 1..3 |-> IF r[i] = 0 THEN F(0) ELSE Fl("fin", r[i], d2)]

\* The dominant-axis fallback, lines 55-60, for a normal n of floats:
\* (-n2, 0, n0) / sqrt(n0^2 + n2^2) when |n0| > |n1|, else
\* (0, n2, -n1) / sqrt(n1^2 + n2^2); 1.0 / sqrt(0) is inf and 0 * inf is NaN.
Fallback(n) ==
  IF ~IsNaN(n[1]) /\ ~IsNaN(n[2]) /\ Abs(n[1].n) > Abs(n[2].n)
  THEN IF IsNaN(n[3]) THEN <<NaN, F(0), NaN>>
       ELSE LET t == Normalized(<<Rat(-n[3].n, 1), XZero, Rat(n[1].n, 1)>>)
            IN <<t[1], F(0), t[3]>>
  ELSE IF IsNaN(n[2]) \/ IsNaN(n[3]) \/ (n[2].n = 0 /\ n[3].n = 0)
       THEN <<F(0), NaN, NaN>>
       ELSE LET t == Normalized(<<XZero, Rat(n[3].n, 1), Rat(-n[2].n, 1)>>)
            IN <<F(0), t[2], t[3]>>

\* t - np.dot(t, n) * n, lines 46-50.
TOrtho(t, n) == VSub(t, VScale(Dot3(t, XVec(n)), XVec(n)))
\* np.linalg.norm(t_ortho) > 1e-6, line 51: false for a NaN norm, true for an
\* infinite one.
NormAboveEps(t_ortho) ==
  /\ \A i \in 1..3 : t_ortho[i].k # "nan"
  /\ \/ \E i \in 1..3 : XIsInf(t_ortho[i])
     \/ AboveEps(XAdd(XAdd(XMul(t_ortho[1], t_ortho[1]), XMul(t_ortho[2], t_ortho[2])),
                      XMul(t_ortho[3], t_ortho[3])))

\* The Gram-Schmidt loop body, lines 42-60, for the accumulated tangent t of
\* a vertex with normal n; inf / inf is NaN and a finite component over an
\* infinite norm is 0.
Orthonormal(t, n) ==
  LET t_ortho == TOrtho(t, n)
      anyInf == \E i \in 1..3 : XIsInf(t_ortho[i])
  IN IF NormAboveEps(t_ortho)
     THEN IF anyInf
          THEN [i \in 1..3 |-> IF XIsInf(t_ortho[i]) THEN NaN ELSE F(0)]
          ELSE Normalized(t_ortho)
     ELSE Fallback(n)

calculate_tangents_bitangents(positions, normals, uvs, indices) ==
  [i \in DOMAIN positions |->
     Orthonormal(Accumulate(positions, uvs, indices, 1, i - 1), normals[i])]


\* ------------------------------------------------------------------ AABB
\* np.min / np.max over one component: NaN when any element is NaN.
SetMin(S) == CHOOSE x \in S : \A y \in S : x <= y
SetMax(S) == CHOOSE x \in S : \A y \in S : x >= y
ColMin(positions, c) ==
  IF \E i \in DOMAIN positions : IsNaN(positions[i][c]) THEN NaN
  ELSE F(SetMin({positions[i][c].n : i \in DOMAIN positions}))
ColMax(positions, c) ==
  IF \E i \in DOMAIN positions : IsNaN(positions[i][c]) THEN NaN
  ELSE F(SetMax({positions[i][c].n : i \in DOMAIN positions}))
AabbMin(positions) == [c \in 1..3 |-> ColMin(positions, c)]
AabbMax(positions) == [c \in 1..3 |-> ColMax(positions, c)]

\* ------------------------------------------------------------------ serializer
\* A struct format is a list of <<repeat count, code>>; 's' items are one byte
\* each and take one argument for the whole run, 'I' and 'f' are four bytes
\* and take one argument per item.
header_format == << <<4, "s">>, <<1, "I">>, <<1, "I">>, <<1, "I">>,
                    <<3, "f">>, <<3, "f">>, <<8, "I">> >>
vertex_format == << <<3, "f">>, <<3, "f">>, <<3, "f">>, <<2, "f">>, <<1, "f">> >>
ItemSize(code) == IF code = "s" THEN 1 ELSE 4
RECURSIVE calcsize(_)
calcsize(fmt) ==
  IF fmt = <<>> THEN 0
  ELSE Head(fmt)[1] * ItemSize(Head(fmt)[2]) + calcsize(Tail(fmt))

SWord(str) == [ty |-> "s", k |-> str, n |-> 0, d2 |-> 1]
U32(v) == [ty |-> "I", k |-> "int", n |-> v, d2 |-> 1]
F32(x) == [ty |-> "f", k |-> x.k, n |-> x.n, d2 |-> x.d2]
FloatOfWord(w) == Fl(w.k, w.n, w.d2)

\* struct.pack(fmt, *args) as words.
RECURSIVE pack(_, _)
pack(fmt, args) ==
  IF fmt = <<>> THEN <<>>
  ELSE LET count == Head(fmt)[1]
           code == Head(fmt)[2]
       IN IF code = "s"
          THEN <<SWord(args[1])>> \o pack(Tail(fmt), Tail(args))
          ELSE [i \in 1..count |-> IF code = "I" THEN U32(args[i]) ELSE F32(args[i])]
               \o pack(Tail(fmt), SubSeq(args, count + 1, Len(args)))

Magic == "CGMF"
Version == 1
PackHeader(vertex_count, index_count, mn, mx) ==
  pack(header_format,
       <<Magic, Version, vertex_count, index_count>> \o mn \o mx
         \o <<0, 0, 0, 0, 0, 0, 0, 0>>)
PackVertex(pos, norm, tan, uv) ==
  pack(vertex_format, pos \o norm \o tan \o uv \o <<F(0)>>)
RECURSIVE PackVertices(_, _, _)
PackVertices(vs, tans, i) ==
  IF i > Len(vs) THEN <<>>
  ELSE PackVertex(vs[i].pos, vs[i].norm, tans[i], vs[i].uv) \o PackVertices(vs, tans, i + 1)
\* indices.tobytes() of a uint32 array
PackIndices(indices) == [i \in DOMAIN indices |-> U32(indices[i])]

\* ------------------------------------------------------------------ validator
Issue(kind, a, b) == [kind |-> kind, a |-> a, b |-> b]
Report(valid, issues, warnings, stats) ==
  [valid |-> valid, issues |-> issues, warnings |-> warnings, stats |-> stats]
NoStats == [present |-> FALSE]

vertex_size == 32
index_size == 4
header_size == 64
\* The bytes the header reads consume: 4 + 4 + 4 + 4 + 12 + 12 + 32.
HeaderReadBytes == 4 + 4 + 4 + 4 + 12 + 12 + 32
HeaderUnpackedBytes == 4 + 4 + 4 + 4 + 12 + 12

Min(a, b) == IF a < b THEN a ELSE b
SeqIf(c, x) == IF c THEN <<x>> ELSE <<>>

\* `if results['issues']: results['valid'] = False` on the flag so far; the
\* faulty variant returns the flag as it stands.
FinalValidKeep(valid, issues) == valid
FinalValid(valid, issues) == IF issues # <<>> THEN FALSE ELSE valid

\* `actual_size != expected_total_size`; the faulty variant never reports it.
SizeMismatchNever(actual_size, expected_total_size) == FALSE
SizeMismatch(actual_size, expected_total_size) == actual_size # expected_total_size

\* `version != 1`; the faulty variant accepts every version silently.
VersionMismatchNever(version) == FALSE
VersionMismatch(version) == version # Version

validate_cobj_file(file) ==
  IF ~file.exists THEN Report(FALSE, <<Issue("File not found", 0, 0)>>, <<>>, NoStats)
  ELSE
  LET ws == file.words
      actual_size == FileSize(file)
  IN
  IF actual_size < WordBytes \/ ws[1].ty # "s" \/ ws[1].k # Magic
  THEN Report(FALSE, <<Issue("Invalid magic number", 0, 0)>>, <<>>, NoStats)
  ELSE
  LET versionRead == actual_size >= 2 * WordBytes
      version == ws[2].n
      versionWarn == SeqIf(versionRead /\ VersionMismatch(version), Issue("Unexpected version", version, 0))
  IN
  IF actual_size < HeaderUnpackedBytes
  THEN \* struct.error from a short read, caught by the outer handler
       Report(FALSE, <<Issue("Failed to read binary file", 0, 0)>>, versionWarn, NoStats)
  ELSE
  LET vertex_count == ws[3].n
      index_count == ws[4].n
      aabb_min == [i \in 1..3 |-> FloatOfWord(ws[4 + i])]
      aabb_max == [i \in 1..3 |-> FloatOfWord(ws[7 + i])]
      current_pos == Min(actual_size, HeaderReadBytes)
      expected_vertex_data_size == vertex_count * vertex_size
      expected_index_data_size == index_count * index_size
      expected_total_size == header_size + expected_vertex_data_size + expected_index_data_size
      vertex_read == Min(actual_size - current_pos, expected_vertex_data_size)
      index_read == Min(actual_size - current_pos - vertex_read, expected_index_data_size)
      AabbIssue(i) == SeqIf(FGt(aabb_min[i], aabb_max[i]), Issue("Invalid AABB", i - 1, 0))
      issues ==
        SeqIf(vertex_count = 0, Issue("Zero vertices in header", 0, 0))
        \o SeqIf(index_count = 0, Issue("Zero indices in header", 0, 0))
        \o AabbIssue(1) \o AabbIssue(2) \o AabbIssue(3)
        \o SeqIf(SizeMismatch(actual_size, expected_total_size),
                 Issue("File size mismatch", expected_total_size, actual_size))
        \o SeqIf(vertex_read # expected_vertex_data_size,
                 Issue("Could not read expected vertex data", 0, 0))
        \o SeqIf(index_read # expected_index_data_size,
                 Issue("Could not read expected index data", 0, 0))
      warnings ==
        versionWarn
        \o SeqIf(index_count % 3 # 0, Issue("Index count not divisible by 3", index_count, 0))
      stats == [present |-> TRUE,
                vertex_count |-> vertex_count,
                index_count |-> index_count,
                aabb_min |-> aabb_min,
                aabb_max |-> aabb_max,
                file_size |-> [actual |-> actual_size,
                               expected |-> expected_total_size,
                               header |-> header_size,
                               vertex_data |-> expected_vertex_data_size,
                               index_data |-> expected_index_data_size]]
  IN Report(FinalValid(TRUE, issues), issues, warnings, stats)


\* ------------------------------------------------------------------ source validator
\* Ordered comparison of two floats read from literals (d2 = 1); false with a NaN.
FLt(a, b) == ~IsNaN(a) /\ ~IsNaN(b) /\ a.n < b.n
\* x**2 of a Python float raises OverflowError when the result is out of range.
SquareOverflows(x) == x.k = "huge"

\* The parse loop of validate_obj_file over the lines the reader delivers:
\* st = [vertices, normals, uvs, faces, issues], line_num counted from 1.
\* A line with too few fields is an issue, and so is one whose float() raises
\* ValueError; neither adds an element.
ObjParseLine(st, line, line_num) ==
  LET need == IF line.kind = "vt" THEN 2 ELSE 3
      format == CASE line.kind = "v" -> "Invalid vertex format"
                  [] line.kind = "vn" -> "Invalid normal format"
                  [] OTHER -> "Invalid UV format"
  IN
  IF line.kind \in {"v", "vn", "vt"}
  THEN IF Len(line.nums) < need
       THEN [st EXCEPT !.issues = Append(@, Issue(format, line_num, 0))]
       ELSE IF BadFloats(line.nums, need)
            THEN [st EXCEPT !.issues = Append(@, Issue("Parse error", line_num, 0))]
            ELSE CASE line.kind = "v" ->
                        [st EXCEPT !.vertices = Append(@, Floats(line.nums, 3))]
                   [] line.kind = "vn" ->
                        [st EXCEPT !.normals = Append(@, Floats(line.nums, 3))]
                   [] OTHER ->
                        [st EXCEPT !.uvs = Append(@, Floats(line.nums, 2))]
  ELSE IF line.kind = "f"
       THEN [st EXCEPT !.faces = Append(@, line.toks)]
       ELSE st
RECURSIVE ObjParse(_, _, _, _)
ObjParse(st, lines, line_num, last) ==
  IF line_num > last THEN st
  ELSE ObjParse(ObjParseLine(st, lines[line_num], line_num), lines, line_num + 1, last)

\* magnitude < 0.001 and abs(magnitude - 1.0) > 0.1 for a normal of literal
\* components, decided on the squared magnitude sq (an integer):
\* sq < 10^-6, and sq > 1.21 or sq < 0.81. A NaN component fails both tests.
NormalCheck(normal, i) ==
  IF \E c \in 1..3 : IsNaN(normal[c]) THEN [issues |-> <<>>, warnings |-> <<>>]
  ELSE LET sq == normal[1].n * normal[1].n + normal[2].n * normal[2].n
                 + normal[3].n * normal[3].n
       IN IF sq * 1000000 < 1
          THEN [issues |-> <<Issue("Zero-length normal vector", i, 0)>>, warnings |-> <<>>]
          ELSE IF sq * 100 > 121 \/ sq * 100 < 81
               THEN [issues |-> <<>>, warnings |-> <<Issue("Not unit length", i, 0)>>]
               ELSE [issues |-> <<>>, warnings |-> <<>>]

\* uv[c] < 0.0 or uv[c] > 1.0, one warning for U and one for V.
UVCheck(uv, i) ==
  SeqIf(FLt(uv[1], F(0)) \/ FGt(uv[1], F(1)), Issue("U coordinate out of range", i, 0))
  \o SeqIf(FLt(uv[2], F(0)) \/ FGt(uv[2], F(1)), Issue("V coordinate out of range", i, 0))

\* `idx < 1 or idx > len(array)`; the faulty variant forgets the lower bound.
OutOfRangeUpperOnly(idx, n) == idx > n
OutOfRange(idx, n) == idx < 1 \/ idx > n

\* The index checks of one face token (its fields after split('/')): int() of
\* a field that is no integer literal raises ValueError, which ends the checks
\* of the token with one more issue. An empty position field counts as 0.
TokenCheck(indices, i, nv, nt, nn) ==
  IF indices[1] # "" /\ ~IsIntLit(indices[1])
  THEN <<Issue("Invalid index format", i, 0)>>
  ELSE
  LET v_idx == IF indices[1] # "" THEN IntOf(indices[1]) ELSE 0
      vIssue == SeqIf(OutOfRange(v_idx, nv), Issue("Vertex index out of range", i, v_idx))
  IN
  IF Len(indices) > 1 /\ indices[2] # "" /\ ~IsIntLit(indices[2])
  THEN vIssue \o <<Issue("Invalid index format", i, 0)>>
  ELSE
  LET hasT == Len(indices) > 1 /\ indices[2] # ""
      tIssue == IF hasT /\ OutOfRange(IntOf(indices[2]), nt)
                THEN <<Issue("UV index out of range", i, IntOf(indices[2]))>> ELSE <<>>
  IN
  IF Len(indices) > 2 /\ indices[3] # "" /\ ~IsIntLit(indices[3])
  THEN vIssue \o tIssue \o <<Issue("Invalid index format", i, 0)>>
  ELSE
  LET hasN == Len(indices) > 2 /\ indices[3] # ""
      nIssue == IF hasN /\ OutOfRange(IntOf(indices[3]), nn)
                THEN <<Issue("Normal index out of range", i, IntOf(indices[3]))>> ELSE <<>>
  IN vIssue \o tIssue \o nIssue

RECURSIVE TokensCheck(_, _, _, _, _, _)
TokensCheck(face, k, i, nv, nt, nn) ==
  IF k > Len(face) THEN <<>>
  ELSE TokenCheck(face[k], i, nv, nt, nn) \o TokensCheck(face, k + 1, i, nv, nt, nn)

\* One face: its arity, then its tokens.
FaceCheck(face, i, nv, nt, nn) ==
  [issues |-> SeqIf(Len(face) < 3, Issue("Less than 3 vertices", i, 0))
              \o TokensCheck(face, 1, i, nv, nt, nn),
   warnings |-> SeqIf(Len(face) > 4, Issue("More than 4 vertices", i, 0))]

\* The three validation loops, from element i on: [issues, warnings].
Both(x, y) == [issues |-> x.issues \o y.issues, warnings |-> x.warnings \o y.warnings]
Neither == [issues |-> <<>>, warnings |-> <<>>]
RECURSIVE NormalsCheck(_, _)
NormalsCheck(normals, i) ==
  IF i > Len(normals) THEN Neither
  ELSE Both(NormalCheck(normals[i], i), NormalsCheck(normals, i + 1))
RECURSIVE UVsCheck(_, _)
UVsCheck(uvs, i) ==
  IF i > Len(uvs) THEN <<>> ELSE UVCheck(uvs[i], i) \o UVsCheck(uvs, i + 1)
RECURSIVE FacesCheck(_, _, _, _, _)
FacesCheck(faces, i, nv, nt, nn) ==
  IF i > Len(faces) THEN Neither
  ELSE Both(FaceCheck(faces[i], i, nv, nt, nn), FacesCheck(faces, i + 1, nv, nt, nn))

\* Python's min() and max() over a column: the first element, replaced by a
\* later one only when that one compares smaller (larger), so the result
\* depends on where a NaN stands.
RECURSIVE PyMin(_, _, _)
PyMin(vs, c, i) ==
  IF i = 1 THEN vs[1][c]
  ELSE LET m == PyMin(vs, c, i - 1) IN IF FLt(vs[i][c], m) THEN vs[i][c] ELSE m
RECURSIVE PyMax(_, _, _)
PyMax(vs, c, i) ==
  IF i = 1 THEN vs[1][c]
  ELSE LET m == PyMax(vs, c, i - 1) IN IF FGt(vs[i][c], m) THEN vs[i][c] ELSE m
\* max - min < 0.001 for literal components; false when either is NaN.
SizeBelowMilli(mn, mx) == ~IsNaN(mn) /\ ~IsNaN(mx) /\ (mx.n - mn.n) * 1000 < 1
Degenerate(vs) ==
  \A c \in 1..3 : SizeBelowMilli(PyMin(vs, c, Len(vs)), PyMax(vs, c, Len(vs)))

\* validate_obj_file on a source file. fail_at = -1 when every read succeeds;
\* otherwise open() or the line iterator raises once fail_at lines have been
\* processed. The outcome is the report, or the exception that escapes.
NoFailure == -1
Returned(r) == [raised |-> "", report |-> r]
Escaped(e) == [raised |-> e, report |-> Report(FALSE, <<>>, <<>>, NoStats)]
validate_obj_file(file, fail_at) ==
  IF ~file.exists
  THEN Returned(Report(FALSE, <<Issue("File not found", 0, 0)>>, <<>>, NoStats))
  ELSE
  LET last == IF fail_at = NoFailure THEN Len(file.lines) ELSE Min(fail_at, Len(file.lines))
      st == ObjParse([vertices |-> <<>>, normals |-> <<>>, uvs |-> <<>>, faces |-> <<>>,
                      issues |-> <<>>], file.lines, 1, last)
  IN
  IF fail_at # NoFailure
  THEN Returned(Report(FALSE, Append(st.issues, Issue("Failed to read file", 0, 0)),
                       <<>>, NoStats))
  ELSE
  LET nv == Len(st.vertices)
      nn == Len(st.normals)
      nt == Len(st.uvs)
      structure == SeqIf(nv = 0, Issue("No vertices found", 0, 0))
                   \o SeqIf(Len(st.faces) = 0, Issue("No faces found", 0, 0))
      valid == ~(nv = 0) /\ ~(Len(st.faces) = 0)
  IN
  IF \E i \in 1..nn : \E c \in 1..3 : SquareOverflows(st.normals[i][c])
  THEN Escaped("OverflowError")
  ELSE
  LET nc == NormalsCheck(st.normals, 1)
      fc == FacesCheck(st.faces, 1, nv, nt, nn)
      degenerate == SeqIf(nv > 0 /\ Degenerate(st.vertices),
                          Issue("Degenerate geometry", 0, 0))
      issues == st.issues \o structure \o nc.issues \o fc.issues \o degenerate
      warnings == nc.warnings \o UVsCheck(st.uvs, 1) \o fc.warnings
      stats == [present |-> TRUE, vertex_count |-> nv, normal_count |-> nn,
                uv_count |-> nt, face_count |-> Len(st.faces)]
  IN Returned(Report(FinalValid(valid, issues), issues, warnings, stats))


\* ------------------------------------------------------------------ state
VARIABLES
  src,             \* the source file: [exists, lines]
  out_file,        \* the file at output_path
  out0,            \* the file at output_path before the invocation
  pc,              \* position of compile_mesh
  exc,             \* the exception compile_mesh raised, "" when none
  ln,              \* the source line the parser reads next
  temp_positions, temp_normals, temp_uvs, face_lines,
  fidx,            \* the face the welder processes next
  final_vertices, final_indices, vertex_map,
  tangents, aabb_min, aabb_max,
  header, vertex_data, index_data,
  report,          \* the report of validate_cobj_file
  checked,         \* the binary file validate_cobj_file was given
  obj_outcome,     \* the outcome of validate_obj_file on the source
  exit_code,       \* exit status of the compiler process, NotExited while it runs
  first,           \* the outcome of the first of two compiler runs
  vmain,           \* one run of the validator's command-line entry point
  pipe             \* the build pipeline's loop over the asset

vars == <<src, out_file, out0, pc, exc, ln, temp_positions, temp_normals, temp_uvs,
          face_lines, fidx, final_vertices, final_indices, vertex_map, tangents,
          aabb_min, aabb_max, header, vertex_data, index_data, report,
          checked, obj_outcome, exit_code, first, vmain, pipe>>

parsed == <<temp_positions, temp_normals, temp_uvs, face_lines>>
welded == <<final_vertices, final_indices, vertex_map>>
computed == <<tangents, aabb_min, aabb_max>>
packed == <<header, vertex_data, index_data>>
files == <<src, out_file, out0>>
tools == <<vmain, pipe>>
session == <<checked, obj_outcome, exit_code, first, tools>>

NoReport == [valid |-> FALSE, issues |-> <<>>, warnings |-> <<>>, stats |-> [present |-> FALSE],
             none |-> TRUE]

\* What an earlier run left at output_path: the binary of one triangle.
StaleVertices ==
  << [pos |-> <<F(0), F(0), F(0)>>, norm |-> DefaultNorm, uv |-> DefaultUV],
     [pos |-> <<F(1), F(0), F(0)>>, norm |-> DefaultNorm, uv |-> DefaultUV],
     [pos |-> <<F(0), F(0), F(1)>>, norm |-> DefaultNorm, uv |-> DefaultUV] >>
StaleFile ==
  FileOf(PackHeader(3, 3, <<F(0), F(0), F(0)>>, <<F(1), F(0), F(1)>>)
         \o PackVertices(StaleVertices, [i \in 1..3 |-> <<F(1), F(0), F(0)>>], 1)
         \o PackIndices(<<0, 1, 2>>))

NoOutcome == [raised |-> "", report |-> NoReport]
NotExited == -1
NoMain == [ran |-> FALSE, suffix |-> "", file |-> NoFile, mode |-> "none", exit |-> NotExited,
           outcome |-> NoOutcome]
PipeIdle == [stage |-> "idle", error_count |-> 0, compiled_assets |-> <<>>,
             metadata |-> FALSE, index |-> FALSE, ret |-> NotExited]
NoFirst == [done |-> FALSE, pc |-> "", exc |-> "", out |-> NoFile]

\* Hand-made binaries for the validator alone: a header of the given magic,
\* version, counts and AABB, cut or zero-padded to a number of words. The
\* lengths are the one the validator's formula expects, the one the compiler's
\* layout gives, and three truncations.
CraftedWords(magic, version, vc, ic, mn, mx, n) ==
  LET hdr == <<SWord(magic), U32(version), U32(vc), U32(ic)>>
             \o [i \in 1..3 |-> F32(mn[i])] \o [i \in 1..3 |-> F32(mx[i])]
  IN [i \in 1..n |-> IF i <= Len(hdr) THEN hdr[i] ELSE U32(0)]
CraftedLengths(vc, ic) ==
  { (header_size + vc * vertex_size + ic * index_size) \div WordBytes,
    (calcsize(header_format) + vc * calcsize(vertex_format) + ic * index_size) \div WordBytes,
    0, 5, 12 }
CraftedFiles ==
  { FileOf(CraftedWords(magic, version, vc, ic, bx[1], bx[2], n)) :
      magic \in {Magic, "XXXX"}, version \in {Version, Version + 1},
      vc \in 0..MaxCount, ic \in {0, 3, 4},
      bx \in { <<DefaultPos, <<F(1), F(1), F(1)>> >>, << <<F(1), F(0), F(0)>>, DefaultPos>> },
      n \in UNION {CraftedLengths(v, i) : v \in 0..MaxCount, i \in {0, 3, 4}} }

\* The start of a session whose destination path holds one of dests.
InitWith(dests) ==
  /\ \/ /\ src \in {[exists |-> TRUE, lines |-> s] : s \in Sources}
                     \cup {[exists |-> FALSE, lines |-> <<>>]}
        /\ out_file \in dests
     \/ /\ src = [exists |-> FALSE, lines |-> <<>>]
        /\ out_file \in CraftedFiles
  /\ out0 = out_file
  /\ pc = "start"
  /\ exc = ""
  /\ ln = 1
  /\ temp_positions = <<>> /\ temp_normals = <<>> /\ temp_uvs = <<>> /\ face_lines = <<>>
  /\ fidx = 1
  /\ final_vertices = <<>> /\ final_indices = <<>> /\ vertex_map = <<>>
  /\ tangents = <<>> /\ aabb_min = <<>> /\ aabb_max = <<>>
  /\ header = <<>> /\ vertex_data = <<>> /\ index_data = <<>>
  /\ report = NoReport
  /\ checked = NoFile
  /\ obj_outcome = NoOutcome
  /\ exit_code = NotExited
  /\ first = NoFirst
  /\ vmain = NoMain
  /\ pipe = PipeIdle
Init == InitWith({NoFile, StaleFile})

Raise(e) == pc' = "raised" /\ exc' = e

\* ------------------------------------------------------------------ compile_mesh
\* open(source_path, 'r')
OpenSource ==
  /\ pc = "start"
  /\ IF src.exists THEN pc' = "parse" /\ exc' = exc ELSE Raise("FileNotFoundError")
  /\ UNCHANGED <<files, ln, parsed, fidx, welded, computed, packed, report, session>>

\* One iteration of `for line in f`.
ParseLine ==
  /\ pc = "parse"
  /\ ln <= Len(src.lines)
  /\ LET line == src.lines[ln] IN
     CASE line.kind = "v" ->
            IF BadFloats(line.nums, 3)
            THEN Raise("ValueError") /\ UNCHANGED <<ln, parsed>>
            ELSE /\ temp_positions' = Append(temp_positions, Floats(line.nums, 3))
                 /\ ln' = ln + 1
                 /\ UNCHANGED <<pc, exc, temp_normals, temp_uvs, face_lines>>
       [] line.kind = "vn" ->
            IF BadFloats(line.nums, 3)
            THEN Raise("ValueError") /\ UNCHANGED <<ln, parsed>>
            ELSE /\ temp_normals' = Append(temp_normals, Floats(line.nums, 3))
                 /\ ln' = ln + 1
                 /\ UNCHANGED <<pc, exc, temp_positions, temp_uvs, face_lines>>
       [] line.kind = "vt" ->
            IF BadFloats(line.nums, 2)
            THEN Raise("ValueError") /\ UNCHANGED <<ln, parsed>>
            ELSE /\ temp_uvs' = Append(temp_uvs, Floats(line.nums, 2))
                 /\ ln' = ln + 1
                 /\ UNCHANGED <<pc, exc, temp_positions, temp_normals, face_lines>>
       [] line.kind = "f" ->
            /\ face_lines' = Append(face_lines, line.toks)
            /\ ln' = ln + 1
            /\ UNCHANGED <<pc, exc, temp_positions, temp_normals, temp_uvs>>
       [] OTHER ->
            /\ ln' = ln + 1
            /\ UNCHANGED <<pc, exc, parsed>>
  /\ UNCHANGED <<files, fidx, welded, computed, packed, report, session>>

\* End of file: `if not temp_positions or not face_lines: return False`.
EmptyGeometry(tp, fl) == tp = <<>> \/ fl = <<>>
CheckEmpty ==
  /\ pc = "parse"
  /\ ln > Len(src.lines)
  /\ pc' = IF EmptyGeometry(temp_positions, face_lines) THEN "returned_false" ELSE "weld"
  /\ UNCHANGED <<files, exc, ln, parsed, fidx, welded, computed, packed, report, session>>

\* One iteration of `for face in face_lines`.
Weld ==
  /\ pc = "weld"
  /\ fidx <= Len(face_lines)
  /\ LET w == WeldFace([fv |-> final_vertices, fi |-> final_indices, vm |-> vertex_map,
                        err |-> "", tp |-> temp_positions, tn |-> temp_normals,
                        tu |-> temp_uvs],
                       face_lines[fidx])
     IN /\ final_vertices' = w.fv
        /\ final_indices' = w.fi
        /\ vertex_map' = w.vm
        /\ IF w.err # "" THEN Raise(w.err) /\ fidx' = fidx
           ELSE fidx' = fidx + 1 /\ UNCHANGED <<pc, exc>>
  /\ UNCHANGED <<files, ln, parsed, computed, packed, report, session>>

\* Step 3 and the tangent calculation: the arrays are rectangular only when
\* every welded position and normal has three components and every texcoord
\* two; otherwise np.array, np.dot, an index into a short texcoord or
\* struct.pack raises before anything is written.
Rectangular(vs) ==
  \A i \in DOMAIN vs : Len(vs[i].pos) = 3 /\ Len(vs[i].norm) = 3 /\ Len(vs[i].uv) = 2
Positions(vs) == [i \in DOMAIN vs |-> vs[i].pos]
Normals(vs) == [i \in DOMAIN vs |-> vs[i].norm]
UVs(vs) == [i \in DOMAIN vs |-> vs[i].uv]
CalcTangents ==
  /\ pc = "weld"
  /\ fidx > Len(face_lines)
  /\ IF Rectangular(final_vertices)
     THEN /\ tangents' = calculate_tangents_bitangents(Positions(final_vertices),
                           Normals(final_vertices), UVs(final_vertices), final_indices)
          /\ pc' = "aabb"
          /\ exc' = exc
     ELSE Raise("ValueError") /\ tangents' = tangents
  /\ UNCHANGED <<files, ln, parsed, fidx, welded, aabb_min, aabb_max, packed, report, session>>

\* np.min / np.max over the welded positions; a zero-size array raises.
CalcAABB ==
  /\ pc = "aabb"
  /\ IF final_vertices = <<>>
     THEN Raise("ValueError") /\ UNCHANGED <<aabb_min, aabb_max>>
     ELSE /\ aabb_min' = AabbMin(Positions(final_vertices))
          /\ aabb_max' = AabbMax(Positions(final_vertices))
          /\ pc' = "pack"
          /\ exc' = exc
  /\ UNCHANGED <<files, ln, parsed, fidx, welded, tangents, packed, report, session>>

\* Step 5: header, vertex data and index data as bytes in memory.
Pack ==
  /\ pc = "pack"
  /\ header' = PackHeader(Len(final_vertices), Len(final_indices), aabb_min, aabb_max)
  /\ vertex_data' = PackVertices(final_vertices, tangents, 1)
  /\ index_data' = PackIndices(final_indices)
  /\ pc' = "makedirs"
  /\ UNCHANGED <<files, exc, ln, parsed, fidx, welded, computed, report, session>>

\* os.makedirs(os.path.dirname(output_path), exist_ok=True): a destination
\* path with no directory part has dirname '' and makedirs('') raises.
MakeDirs ==
  /\ pc = "makedirs"
  /\ \E has_dir \in BOOLEAN :
       IF has_dir THEN pc' = "open" /\ exc' = exc ELSE Raise("FileNotFoundError")
  /\ UNCHANGED <<files, ln, parsed, fidx, welded, computed, packed, report, session>>

\* Faulty variant: the destination is opened for writing before the source is parsed.
OpenOutputEarly ==
  /\ pc \in {"parse", "open"}
  /\ pc = "parse" => (ln = 1 /\ out_file # [exists |-> TRUE, words |-> <<>>])
  /\ out_file' = [exists |-> TRUE, words |-> <<>>]
  /\ pc' = IF pc = "open" THEN "write_header" ELSE pc
  /\ UNCHANGED <<src, out0, exc, ln, parsed, fidx, welded, computed, packed, report, session>>
\* Faulty variant: the destination is opened in append mode.
OpenOutputAppend ==
  /\ pc = "open"
  /\ out_file' = FileOf(out_file.words)
  /\ pc' = "write_header"
  /\ UNCHANGED <<src, out0, exc, ln, parsed, fidx, welded, computed, packed, report, session>>
\* open(output_path, 'wb') creates or truncates the file.
OpenOutput ==
  /\ pc = "open"
  /\ out_file' = FileOf(<<>>)
  /\ pc' = "write_header"
  /\ UNCHANGED <<src, out0, exc, ln, parsed, fidx, welded, computed, packed, report, session>>

WriteTo(f, data) == FileOf(f.words \o data)
WriteHeader ==
  /\ pc = "write_header"
  /\ out_file' = WriteTo(out_file, header)
  /\ pc' = "write_vertex"
  /\ UNCHANGED <<src, out0, exc, ln, parsed, fidx, welded, computed, packed, report, session>>
WriteVertexData ==
  /\ pc = "write_vertex"
  /\ out_file' = WriteTo(out_file, vertex_data)
  /\ pc' = "write_index"
  /\ UNCHANGED <<src, out0, exc, ln, parsed, fidx, welded, computed, packed, report, session>>
WriteIndexData ==
  /\ pc = "write_index"
  /\ out_file' = WriteTo(out_file, index_data)
  /\ pc' = "returned_true"
  /\ UNCHANGED <<src, out0, exc, ln, parsed, fidx, welded, computed, packed, report, session>>

Finished == pc \in {"returned_true", "returned_false", "raised"}

\* The build step that follows: validate_cobj_file(output_path).
ValidateCobj ==
  /\ Finished
  /\ report = NoReport
  /\ report' = validate_cobj_file(out_file)
  /\ checked' = out_file
  /\ UNCHANGED <<files, pc, exc, ln, parsed, fidx, welded, computed, packed,
                 obj_outcome, exit_code, first, tools>>

\* The validator on a copy of the produced binary whose vertex-count field was
\* overwritten with a larger value, the length of the file unchanged.
CorruptVertexCount(file, more) ==
  FileOf([file.words EXCEPT ![3] = U32(@.n + more)])
ValidateCorrupted ==
  /\ pc = "returned_true"
  /\ report = NoReport
  /\ \E more \in 1..MaxMore :
       /\ checked' = CorruptVertexCount(out_file, more)
       /\ report' = validate_cobj_file(CorruptVertexCount(out_file, more))
  /\ UNCHANGED <<files, pc, exc, ln, parsed, fidx, welded, computed, packed,
                 obj_outcome, exit_code, first, tools>>

\* validate_obj_file(source_path), with the read failing at open, after the
\* last line, or not at all.
FailPoints(file) == {NoFailure, 0, Len(file.lines)}
ValidateObj ==
  /\ Finished
  /\ obj_outcome = NoOutcome
  /\ \E fail_at \in FailPoints(src) : obj_outcome' = validate_obj_file(src, fail_at)
  /\ UNCHANGED <<files, pc, exc, ln, parsed, fidx, welded, computed, packed, report,
                 checked, exit_code, first, tools>>

\* The command-line entry point: an uncaught exception ends the process with
\* status 1; the value compile_mesh returns is dropped and the script runs off
\* its end with status 0. (A missing source is refused with status 1 before
\* the call; here the call raises, with the same status.)
ExitStatus(p) == IF p = "raised" THEN 1 ELSE 0
Exit ==
  /\ Finished
  /\ exit_code = NotExited
  /\ exit_code' = ExitStatus(pc)
  /\ UNCHANGED <<files, pc, exc, ln, parsed, fidx, welded, computed, packed, report,
                 checked, obj_outcome, first, tools>>

\* A second invocation on the same source and destination path once the first
\* process has exited: every local starts afresh, the destination holds what
\* the first run left.
Rerun ==
  /\ Finished
  /\ exit_code # NotExited
  /\ ~first.done
  /\ first' = [done |-> TRUE, pc |-> pc, exc |-> exc, out |-> out_file]
  /\ out0' = out_file
  /\ pc' = "start"
  /\ exc' = ""
  /\ ln' = 1
  /\ temp_positions' = <<>> /\ temp_normals' = <<>> /\ temp_uvs' = <<>> /\ face_lines' = <<>>
  /\ fidx' = 1
  /\ final_vertices' = <<>> /\ final_indices' = <<>> /\ vertex_map' = <<>>
  /\ tangents' = <<>> /\ aabb_min' = <<>> /\ aabb_max' = <<>>
  /\ header' = <<>> /\ vertex_data' = <<>> /\ index_data' = <<>>
  /\ report' = NoReport
  /\ checked' = NoFile
  /\ obj_outcome' = NoOutcome
  /\ exit_code' = NotExited
  /\ UNCHANGED <<src, out_file, tools>>

Next ==
  \/ OpenSource
  \/ ParseLine
  \/ CheckEmpty
  \/ Weld
  \/ CalcTangents
  \/ CalcAABB
  \/ Pack
  \/ MakeDirs
  \/ OpenOutput
  \/ WriteHeader
  \/ WriteVertexData
  \/ WriteIndexData
  \/ ValidateCobj
  \/ ValidateCorrupted
  \/ ValidateObj
  \/ Exit
  \/ Rerun

Spec == Init /\ [][Next]_vars


\* ------------------------------------------------------------------ validate_mesh.py main
\* Path(filepath).suffix.lower() for the suffixes the runs use.
Suffixes == {".obj", ".OBJ", ".cobj", ".txt", ""}
Lower(suffix) == IF suffix = ".OBJ" THEN ".obj" ELSE suffix
\* The file at a path of a given suffix: the source text at .obj and .txt
\* paths, the binary at the others.
FileAt(suffix) == IF Lower(suffix) \in {".obj", ".txt"} THEN src ELSE out_file

\* sys.exit(0 if results['valid'] else 1); the faulty variant always exits 0.
ExitOfValidZero(valid) == 0
ExitOfValid(valid) == IF valid THEN 0 ELSE 1

\* main() of the validator for sys.argv of the right length or not, a path
\* of the given suffix and the file there: the mode dispatched, the outcome of
\* the validating function and the exit status. An exception that leaves
\* validate_obj_file ends the process with status 1.
validator_main(argc_ok, suffix, file, fail_at) ==
  LET refused == [ran |-> TRUE, suffix |-> suffix, file |-> file, mode |-> "none", exit |-> 1,
                  outcome |-> NoOutcome]
  IN
  IF ~argc_ok \/ ~file.exists THEN refused
  ELSE IF Lower(suffix) = ".obj"
       THEN LET o == validate_obj_file(file, fail_at)
            IN [refused EXCEPT !.mode = "source", !.outcome = o,
                               !.exit = IF o.raised # "" THEN 1 ELSE ExitOfValid(o.report.valid)]
       ELSE IF Lower(suffix) = ".cobj"
            THEN LET r == validate_cobj_file(file)
                 IN [refused EXCEPT !.mode = "binary", !.outcome = Returned(r),
                                    !.exit = ExitOfValid(r.valid)]
            ELSE refused

\* A run of the validator from the command line, before or after the build.
ValidatorMain ==
  /\ ~vmain.ran
  /\ pipe.stage \in {"idle", "returned"}
  /\ \E argc_ok \in BOOLEAN : \E suffix \in Suffixes :
       \E fail_at \in (IF Lower(suffix) = ".obj" THEN FailPoints(src) ELSE {NoFailure}) :
         vmain' = validator_main(argc_ok, suffix, FileAt(suffix), fail_at)
  /\ UNCHANGED <<files, pc, exc, ln, parsed, fidx, welded, computed, packed, report,
                 checked, obj_outcome, exit_code, first, pipe>>

\* ------------------------------------------------------------------ build_pipeline.py main
\* One asset of the loop at lines 125-190. The source is looked for, then the
\* up-to-date test (not --force, destination present and newer than the
\* source) decides between skipping and compiling.
PipelineStart ==
  /\ pipe.stage = "idle"
  /\ pc = "start"
  /\ \E newer \in BOOLEAN :
       pipe' = IF ~src.exists THEN [pipe EXCEPT !.stage = "loop_end"]
               ELSE IF newer /\ out_file.exists
                    THEN [pipe EXCEPT !.stage = "loop_end",
                                      !.compiled_assets = Append(@, "asset")]
                    ELSE [pipe EXCEPT !.stage = "compiling"]
  /\ UNCHANGED <<files, pc, exc, ln, parsed, fidx, welded, computed, packed, report,
                 checked, obj_outcome, exit_code, first, vmain>>

\* The compiler as the subprocess of line 157, up to its exit.
CompileStep ==
  /\ pipe.stage = "compiling"
  /\ \/ OpenSource
     \/ ParseLine
     \/ CheckEmpty
     \/ Weld
     \/ CalcTangents
     \/ CalcAABB
     \/ Pack
     \/ MakeDirs
     \/ OpenOutput
     \/ WriteHeader
     \/ WriteVertexData
     \/ WriteIndexData
     \/ Exit

\* subprocess.run(..., check=True) raises CalledProcessError for a non-zero
\* exit status; the faulty variant takes every status for a success.
CalledProcessErrorNever(status) == FALSE
CalledProcessError(status) == status # 0

\* The compiler has exited: line 187 counts a failure, else on to validation.
PipelineAfterCompile ==
  /\ pipe.stage = "compiling"
  /\ exit_code # NotExited
  /\ pipe' = IF CalledProcessError(exit_code)
             THEN [pipe EXCEPT !.stage = "loop_end", !.error_count = @ + 1]
             ELSE [pipe EXCEPT !.stage = "validating"]
  /\ UNCHANGED <<files, pc, exc, ln, parsed, fidx, welded, computed, packed, report,
                 checked, obj_outcome, exit_code, first, vmain>>

\* Lines 160-185: the validator on output_cobj_file; a failure is counted and
\* the metadata skipped, a success writes the metadata and lists the asset.
PipelineValidate ==
  /\ pipe.stage = "validating"
  /\ pipe' = IF CalledProcessError(validator_main(TRUE, ".cobj", out_file, NoFailure).exit)
             THEN [pipe EXCEPT !.stage = "loop_end", !.error_count = @ + 1]
             ELSE [pipe EXCEPT !.stage = "loop_end", !.metadata = TRUE,
                               !.compiled_assets = Append(@, "asset")]
  /\ UNCHANGED <<files, pc, exc, ln, parsed, fidx, welded, computed, packed, report,
                 checked, obj_outcome, exit_code, first, vmain>>

\* Lines 195-201: the index is generated only when nothing failed.
PipelineReturn ==
  /\ pipe.stage = "loop_end"
  /\ pipe' = IF pipe.error_count = 0
             THEN [pipe EXCEPT !.stage = "returned", !.index = TRUE, !.ret = 0]
             ELSE [pipe EXCEPT !.stage = "returned", !.ret = 1]
  /\ UNCHANGED <<files, pc, exc, ln, parsed, fidx, welded, computed, packed, report,
                 checked, obj_outcome, exit_code, first, vmain>>

CliNext ==
  \/ PipelineStart
  \/ CompileStep
  \/ PipelineAfterCompile
  \/ PipelineValidate
  \/ PipelineReturn
  \/ ValidatorMain

\* A build directory may also hold a geometry.cobj that was not written by
\* this compiler: one laid out as the validator's size formula expects.
ConformingFile ==
  FileOf(CraftedWords(Magic, Version, 1, 3, DefaultPos, <<F(1), F(1), F(1)>>,
                      (header_size + vertex_size + 3 * index_size) \div WordBytes))
CliInit == InitWith({NoFile, StaleFile, ConformingFile})
CliSpec == CliInit /\ [][CliNext]_vars


\* ================================================================== claims
Validated == report # NoReport
Produced == pc = "returned_true"
\* The counts the header of the written file stores.
HeaderVertexCount(f) == f.words[3].n
HeaderIndexCount(f) == f.words[4].n
HeaderAabbMin(f) == [i \in 1..3 |-> FloatOfWord(f.words[4 + i])]
HeaderAabbMax(f) == [i \in 1..3 |-> FloatOfWord(f.words[7 + i])]

\* C1: writer/validator agreement. For every source compile_mesh compiles,
\* validate_cobj_file on the file it wrote returns valid with no issues.
C1_WriterValidatorAgree ==
  (Produced /\ Validated) => (report.valid /\ report.issues = <<>>)

\* C2: the bytes of a produced binary number exactly
\* 64 + vertex_count*32 + index_count*4, the counts being those of its header.
C2_FileLength ==
  Produced =>
    FileSize(out_file) = 64 + HeaderVertexCount(out_file) * 32 + HeaderIndexCount(out_file) * 4

\* C3: the serialized header is exactly 64 bytes, so the vertex array starts
\* at byte 64, and the bytes the validator consumes before the vertex data
\* equal the header_size of its expected-size formula.
C3_HeaderIs64Bytes ==
  /\ Produced => WordBytes * Len(header) = 64
  /\ (Produced /\ Validated /\ report.stats.present) =>
       HeaderReadBytes = report.stats.file_size.header


\* The welder is between faces, or past them, and has raised nothing.
WeldedOK == pc \in {"weld", "aabb", "pack", "makedirs", "open", "write_header",
                    "write_vertex", "write_index", "returned_true"}

\* C4: welding invariant. Two references that denote the same (position,
\* texcoord, normal) triple, however the token spells it ('1', '1/', '1//'),
\* resolve to the same welded vertex, so no two welded vertices come from the
\* same triple.
C4_SameTripleSameVertex ==
  WeldedOK =>
    \A t1 \in DOMAIN vertex_map : \A t2 \in DOMAIN vertex_map :
      Fields(t1) = Fields(t2) => vertex_map[t1] = vertex_map[t2]

\* C5: after any sequence of faces the welder processed (triangles, quads,
\* skipped arities) the index count is a multiple of 3, and so is the index
\* count written to the header.
C5_IndexCountMultipleOf3 ==
  /\ WeldedOK => Len(final_indices) % 3 = 0
  /\ Produced => /\ HeaderIndexCount(out_file) = Len(final_indices)
                 /\ HeaderIndexCount(out_file) % 3 = 0
C5_Witness ==
  /\ Produced
  /\ \E i \in DOMAIN face_lines : Len(face_lines[i]) = 4
  /\ \E i \in DOMAIN face_lines : ~Retained(face_lines[i])
  /\ HeaderIndexCount(out_file) = 6

\* C6: vertex-count monotonicity. The welded vertices never outnumber the
\* face references of the source, and the header stores that vertex count.
C6_VertexCountAtMostReferences ==
  /\ Len(final_vertices) <= SumLens(face_lines)
  /\ Produced => /\ HeaderVertexCount(out_file) = Len(final_vertices)
                 /\ HeaderVertexCount(out_file) <= SumLens(face_lines)
C6_Witness ==
  /\ Produced
  /\ Len(face_lines) = 2
  /\ Len(final_vertices) < SumLens(face_lines)
  /\ Len(final_indices) > SumLens(face_lines)

\* C7: the header AABB of a produced binary has min <= max in x, y and z and
\* is the component-wise min and max over exactly the welded positions.
C7_AabbOrdered ==
  Produced =>
    /\ \A i \in 1..3 : FLe(HeaderAabbMin(out_file)[i], HeaderAabbMax(out_file)[i])
    /\ HeaderAabbMin(out_file) = AabbMin(Positions(final_vertices))
    /\ HeaderAabbMax(out_file) = AabbMax(Positions(final_vertices))


\* C8: fail-fast atomicity. A malformed numeric field, no positions or no
\* faces make compile_mesh fail; whenever it fails the destination file is as
\* it was before the call; and the file is opened only once header, vertex
\* and index bytes are all computed.
Failed == pc \in {"raised", "returned_false"}
Opened == pc \in {"write_header", "write_vertex", "write_index", "returned_true"}
MalformedNumber(line) ==
  \/ line.kind \in {"v", "vn"} /\ BadFloats(line.nums, 3)
  \/ line.kind = "vt" /\ BadFloats(line.nums, 2)
HasKind(lines, kind) == \E i \in DOMAIN lines : lines[i].kind = kind
C8_FailFastAtomic ==
  /\ ( /\ Finished
       /\ src.exists
       /\ \/ \E i \in DOMAIN src.lines : MalformedNumber(src.lines[i])
          \/ ~HasKind(src.lines, "v")
          \/ ~HasKind(src.lines, "f") ) => Failed
  /\ Failed => out_file = out0
  /\ ~Opened => out_file = out0
  /\ Opened => /\ header = PackHeader(Len(final_vertices), Len(final_indices),
                                      AabbMin(Positions(final_vertices)),
                                      AabbMax(Positions(final_vertices)))
               /\ vertex_data = PackVertices(final_vertices, tangents, 1)
               /\ Len(vertex_data) > 0
               /\ index_data = PackIndices(final_indices)
               /\ Len(index_data) > 0
C8_Witness ==
  /\ pc = "raised"
  /\ exc = "ValueError"
  /\ ln <= Len(src.lines)
  /\ MalformedNumber(src.lines[ln])
  /\ temp_positions # <<>>
  /\ out0 = StaleFile
  /\ out_file = StaleFile

\* C9: a face whose arity is neither 3 nor 4 is skipped without aborting the
\* compile. The step that processes it leaves the welded vertices, the vertex
\* map and the index buffer as they were and moves on to the next face; the
\* welder never raises on such a face; the welded state, and the counts of
\* the produced header, are those of the other faces alone; and the compile
\* completes (up to creating the destination directory) whenever the other
\* faces alone weld to a non-empty rectangular vertex array.
RECURSIVE WeldAll(_, _)
WeldAll(w, faces) ==
  IF faces = <<>> \/ w.err # "" THEN w
  ELSE WeldAll(WeldFace(w, Head(faces)), Tail(faces))
OthersAlone(n) ==
  WeldAll([fv |-> <<>>, fi |-> <<>>, vm |-> <<>>, err |-> "", tp |-> temp_positions,
           tn |-> temp_normals, tu |-> temp_uvs],
          SelectSeq(SubSeq(face_lines, 1, n), Retained))
RaisedInWelder == pc = "raised" /\ ln > Len(src.lines) /\ fidx <= Len(face_lines)
C9_State ==
  /\ WeldedOK =>
       LET w == OthersAlone(fidx - 1)
       IN w.err = "" /\ w.fv = final_vertices /\ w.fi = final_indices /\ w.vm = vertex_map
  /\ RaisedInWelder => Retained(face_lines[fidx])
  /\ ( /\ Finished
       /\ ln > Len(src.lines)
       /\ ~EmptyGeometry(temp_positions, face_lines)
       /\ LET w == OthersAlone(Len(face_lines))
          IN w.err = "" /\ w.fv # <<>> /\ Rectangular(w.fv) )
     => (Produced \/ exc = "FileNotFoundError")
  /\ Produced => /\ HeaderVertexCount(out_file) = Len(OthersAlone(Len(face_lines)).fv)
                 /\ HeaderIndexCount(out_file) = Len(OthersAlone(Len(face_lines)).fi)
C9_Step ==
  (pc = "weld" /\ fidx <= Len(face_lines) /\ ~Retained(face_lines[fidx]))
    => (UNCHANGED welded /\ pc' = "weld" /\ exc' = exc /\ fidx' = fidx + 1)
OneDistinctQuad ==
  /\ Len(temp_positions) = 4
  /\ Len(face_lines) = 1
  /\ Len(face_lines[1]) = 4
  /\ Cardinality(Range(face_lines[1])) = 4
C10_Step ==
  (pc = "weld" /\ fidx <= Len(face_lines) /\ Len(face_lines[fidx]) = 4 /\ pc' = "weld")
    => LET f == face_lines[fidx]
           m == vertex_map'
       IN final_indices' =
            final_indices \o <<m[f[1]], m[f[2]], m[f[3]], m[f[1]], m[f[3]], m[f[4]]>>
C10_State ==
  /\ (WeldedOK /\ fidx = 2 /\ OneDistinctQuad) =>
       (Len(final_vertices) = 4 /\ final_indices = <<0, 1, 2, 0, 2, 3>>)
  /\ (Produced /\ OneDistinctQuad) =>
       (HeaderVertexCount(out_file) = 4 /\ HeaderIndexCount(out_file) = 6)
C10_QuadFan == []C10_State /\ [][C10_Step]_vars
C10_Witness ==
  /\ Produced
  /\ OneDistinctQuad
  /\ HeaderVertexCount(out_file) = 4
  /\ HeaderIndexCount(out_file) = 6
  /\ out_file.words[Len(out_file.words) - 5].n = 0
  /\ out_file.words[Len(out_file.words)].n = 3

\* The validators have run to a result.
ObjValidated == obj_outcome # NoOutcome
HasIssue(r, kind) == \E i \in DOMAIN r.issues : r.issues[i].kind = kind
HasWarning(r, kind) == \E i \in DOMAIN r.warnings : r.warnings[i].kind = kind
\* The floats of welded vertex i (1-based) in a produced file, by field.
VertexWords(f, i) ==
  SubSeq(f.words, calcsize(header_format) \div WordBytes
                  + (i - 1) * (calcsize(vertex_format) \div WordBytes) + 1,
         calcsize(header_format) \div WordBytes
                  + i * (calcsize(vertex_format) \div WordBytes))
FileNormal(f, i) == [c \in 1..3 |-> FloatOfWord(VertexWords(f, i)[3 + c])]
FileUV(f, i) == [c \in 1..2 |-> FloatOfWord(VertexWords(f, i)[9 + c])]

\* C11: a source with valid v and f lines, no vn and no vt line, and face
\* tokens that give only a position index compiles (up to creating the
\* destination directory); every welded vertex, in memory and in the written
\* file, has normal (0,1,0) and texcoord (0,0); and validate_obj_file on that
\* source returns a report without a normal-magnitude warning.
PositionOnly(tok, nv) ==
  /\ Fields(tok)[2] = "" /\ Fields(tok)[3] = ""
  /\ IsIntLit(Fields(tok)[1])
  /\ IntOf(Fields(tok)[1]) >= 1 /\ IntOf(Fields(tok)[1]) <= nv
NoAttributes ==
  /\ src.exists
  /\ HasKind(src.lines, "v") /\ HasKind(src.lines, "f")
  /\ ~HasKind(src.lines, "vn") /\ ~HasKind(src.lines, "vt")
  /\ \A i \in DOMAIN src.lines :
       /\ src.lines[i].kind = "v" =>
            (Len(src.lines[i].nums) >= 3 /\ ~BadFloats(src.lines[i].nums, 3))
       /\ src.lines[i].kind = "f" =>
            /\ Retained(src.lines[i].toks)
            /\ \A k \in DOMAIN src.lines[i].toks :
                 PositionOnly(src.lines[i].toks[k],
                              Cardinality({j \in DOMAIN src.lines : src.lines[j].kind = "v"}))
C11_DefaultsWithoutAttributes ==
  NoAttributes =>
    /\ Finished => (Produced \/ exc = "FileNotFoundError")
    /\ \A i \in DOMAIN final_vertices :
         /\ final_vertices[i].norm = <<F(0), F(1), F(0)>>
         /\ final_vertices[i].uv = <<F(0), F(0)>>
    /\ Produced =>
         /\ Len(final_vertices) > 0
         /\ \A i \in DOMAIN final_vertices :
              /\ FileNormal(out_file, i) = <<F(0), F(1), F(0)>>
              /\ FileUV(out_file, i) = <<F(0), F(0)>>
    /\ ObjValidated =>
         /\ obj_outcome.raised = ""
         /\ ~HasWarning(obj_outcome.report, "Not unit length")
         /\ ~HasIssue(obj_outcome.report, "Zero-length normal vector")
C11_Witness ==
  /\ NoAttributes
  /\ Produced
  /\ Len(final_vertices) = 3
  /\ ObjValidated
  /\ obj_outcome.report.stats.present
  /\ obj_outcome.report.stats.normal_count = 0
  /\ obj_outcome.report.warnings = <<>>

\* C12: determinism. A second run of compile_mesh on the same source ends as
\* the first did and leaves the same bytes at the destination, whatever the
\* first run left behind: where the first run wrote a file, the second ends
\* with that very file; where the first run failed in the source, the second
\* fails the same way. (A failure to create the destination directory belongs
\* to the destination path, not to the source: runs that differ in it are
\* runs on different destinations.)
DirectoryFailure(p, e) == p = "raised" /\ e = "FileNotFoundError" /\ src.exists
C12_Deterministic ==
  (first.done /\ Finished /\ ~DirectoryFailure(first.pc, first.exc)) =>
    /\ out_file = first.out
    /\ ~DirectoryFailure(pc, exc) => (pc = first.pc /\ exc = first.exc)
C12_Witness ==
  /\ first.done
  /\ first.pc = "returned_true"
  /\ Produced
  /\ out0 = first.out
  /\ out_file = first.out
  /\ HeaderVertexCount(out_file) = 4
  /\ HeaderIndexCount(out_file) = 6

\* C13: the compiler process exits with status 0 exactly when the compile
\* succeeded and with status 1 on every failure, the return of False for a
\* source without positions or without faces included.
C13_ExitStatus ==
  exit_code # NotExited =>
    /\ exit_code = 0 <=> Produced
    /\ Failed => exit_code = 1

\* C14: binary-mode size check. Once the header is read, validate_cobj_file
\* reports a size issue exactly when the length of the file differs from
\* 64 + vertex_count*32 + index_count*4; and a file with magic CGMF, version
\* 1, vertex_count >= 1, index_count >= 1 divisible by 3, AABB min <= max and
\* exactly that length is reported valid with no issues.
ExpectedLength(f) == 64 + HeaderVertexCount(f) * 32 + HeaderIndexCount(f) * 4
WellFormed64(f) ==
  /\ f.exists
  /\ Len(f.words) >= 10
  /\ f.words[1] = SWord("CGMF")
  /\ f.words[2].n = 1
  /\ HeaderVertexCount(f) >= 1
  /\ HeaderIndexCount(f) >= 1 /\ HeaderIndexCount(f) % 3 = 0
  /\ \A i \in 1..3 : FLe(HeaderAabbMin(f)[i], HeaderAabbMax(f)[i])
  /\ FileSize(f) = ExpectedLength(f)
C14_SizeCheck ==
  Validated =>
    /\ report.stats.present =>
         (HasIssue(report, "File size mismatch") <=> FileSize(checked) # ExpectedLength(checked))
    /\ WellFormed64(checked) => (report.valid /\ report.issues = <<>>)

\* C15: a produced binary whose vertex-count field was replaced by a larger
\* value, its length unchanged, is reported invalid, with a size-mismatch
\* issue that carries the byte count expected from the corrupted header and
\* the actual length of the file.
Corrupted ==
  /\ Produced /\ Validated
  /\ Len(checked.words) = Len(out_file.words)
  /\ HeaderVertexCount(checked) > HeaderVertexCount(out_file)
  /\ \A i \in DOMAIN out_file.words : i # 3 => checked.words[i] = out_file.words[i]
C15_CorruptedCountRejected ==
  Corrupted =>
    /\ ~report.valid
    /\ \E i \in DOMAIN report.issues :
         report.issues[i] = Issue("File size mismatch",
                                  64 + HeaderVertexCount(checked) * 32
                                     + HeaderIndexCount(checked) * 4,
                                  FileSize(out_file))
C15_Witness ==
  /\ Corrupted
  /\ HeaderVertexCount(out_file) = 4
  /\ HeaderVertexCount(checked) = 5
  /\ HeaderIndexCount(checked) = 6
  /\ ~report.valid
  /\ HasIssue(report, "File size mismatch")

\* A report validate_obj_file returned (it did not raise), and one that went
\* through every check.
ObjReturned == ObjValidated /\ obj_outcome.raised = ""
ObjChecked == ObjReturned /\ obj_outcome.report.stats.present

\* C16: in both validator modes and on every return path the report has
\* valid == true if and only if its issues list is empty; in particular a
\* report whose only entries are warnings is valid.
C16_ValidIffNoIssues ==
  /\ Validated => (report.valid <=> report.issues = <<>>)
  /\ ObjReturned => (obj_outcome.report.valid <=> obj_outcome.report.issues = <<>>)
C16_Witness ==
  /\ ObjChecked
  /\ obj_outcome.report.valid
  /\ HasWarning(obj_outcome.report, "Not unit length")
  /\ Validated
  /\ ~report.valid
  /\ report.issues # <<>>

\* C17: the validators never raise. Whatever the input, each returns a
\* report, and a report of a missing file or of a failed read is invalid and
\* holds exactly one issue.
IoReport(r) ==
  \/ HasIssue(r, "File not found")
  \/ HasIssue(r, "Failed to read file")
  \/ HasIssue(r, "Failed to read binary file")
C17_ValidatorsNeverRaise ==
  /\ ObjValidated => obj_outcome.raised = ""
  /\ (ObjReturned /\ IoReport(obj_outcome.report)) =>
       (~obj_outcome.report.valid /\ Len(obj_outcome.report.issues) = 1)
  /\ (Validated /\ IoReport(report)) => (~report.valid /\ Len(report.issues) = 1)

\* C18: in source-file mode a source whose positions all coincide and which
\* is otherwise clean gets a warning only: the report is valid and the
\* degenerate-geometry message is among the warnings, not the issues.
GoodPosition(line) ==
  /\ Len(line.nums) >= 3
  /\ ~BadFloats(line.nums, 3)
  /\ \A c \in 1..3 : ~IsNaN(FloatOf(line.nums[c]))
AllCoincide(lines) ==
  /\ HasKind(lines, "v")
  /\ \A i \in DOMAIN lines : lines[i].kind = "v" => GoodPosition(lines[i])
  /\ \A i \in DOMAIN lines : \A j \in DOMAIN lines :
       (lines[i].kind = "v" /\ lines[j].kind = "v") =>
         Floats(lines[i].nums, 3) = Floats(lines[j].nums, 3)
OnlyDegenerate(r) ==
  \A i \in DOMAIN r.issues : r.issues[i].kind = "Degenerate geometry"
C18_DegenerateWarnsOnly ==
  (ObjChecked /\ AllCoincide(src.lines) /\ OnlyDegenerate(obj_outcome.report)) =>
    /\ obj_outcome.report.valid
    /\ HasWarning(obj_outcome.report, "Degenerate geometry")
    /\ ~HasIssue(obj_outcome.report, "Degenerate geometry")

\* C19: in source-file mode a face with fewer than 3 distinct position
\* references (the same reference three times, say) is reported as an issue
\* of that face and makes the report invalid.
ObjFaceLines(lines) == SelectSeq(lines, LAMBDA l : l.kind = "f")
DistinctPositions(face) == Cardinality({face[k][1] : k \in DOMAIN face})
C19_ThreeDistinctReferences ==
  ObjChecked =>
    \A i \in DOMAIN ObjFaceLines(src.lines) :
      DistinctPositions(ObjFaceLines(src.lines)[i].toks) < 3 =>
        /\ ~obj_outcome.report.valid
        /\ \E k \in DOMAIN obj_outcome.report.issues :
             /\ obj_outcome.report.issues[k].kind = "Less than 3 vertices"
             /\ obj_outcome.report.issues[k].a = i

\* C20 as stated: in source-file mode, a face token with a position, texcoord
\* or normal index that is present and outside 1..len(array) produces an issue
\* and an invalid report, and a token whose present indices are all in range
\* produces no index issue.
IndexIssueKinds == {"Vertex index out of range", "UV index out of range",
                    "Normal index out of range", "Invalid index format"}
FaceIndexIssue(r, i) ==
  \E k \in DOMAIN r.issues : r.issues[k].a = i /\ r.issues[k].kind \in IndexIssueKinds
\* The lines of a kind that the validator's parser keeps.
KeptCount(lines, kind, need) ==
  Cardinality({j \in DOMAIN lines : /\ lines[j].kind = kind
                                    /\ Len(lines[j].nums) >= need
                                    /\ ~BadFloats(lines[j].nums, need)})
ArrayLen(lines, k) ==
  CASE k = 1 -> KeptCount(lines, "v", 3)
    [] k = 2 -> KeptCount(lines, "vt", 2)
    [] OTHER -> KeptCount(lines, "vn", 3)
PresentOutOfRange(tok, lines) ==
  \E k \in DOMAIN tok :
    /\ k <= 3 /\ tok[k] # "" /\ IsIntLit(tok[k])
    /\ (IntOf(tok[k]) < 1 \/ IntOf(tok[k]) > ArrayLen(lines, k))
PresentAllInRange(tok, lines) ==
  \A k \in DOMAIN tok :
    (k <= 3 /\ tok[k] # "") =>
      (IsIntLit(tok[k]) /\ IntOf(tok[k]) >= 1 /\ IntOf(tok[k]) <= ArrayLen(lines, k))
C20_IndexRange ==
  ObjChecked =>
    \A i \in DOMAIN ObjFaceLines(src.lines) :
      LET face == ObjFaceLines(src.lines)[i].toks IN
      /\ (\E k \in DOMAIN face : PresentOutOfRange(face[k], src.lines)) =>
           (~obj_outcome.report.valid /\ FaceIndexIssue(obj_outcome.report, i))
      /\ (\A k \in DOMAIN face : PresentAllInRange(face[k], src.lines)) =>
           ~FaceIndexIssue(obj_outcome.report, i)

\* C20 amended: a present index outside 1..len(array) produces an issue and
\* an invalid report; a face whose tokens all name a position and whose
\* present indices are all in range produces no index issue; and a token with
\* an empty position field is reported as vertex index 0 out of range.
C20_IndexRangeWithPosition ==
  ObjChecked =>
    \A i \in DOMAIN ObjFaceLines(src.lines) :
      LET face == ObjFaceLines(src.lines)[i].toks IN
      /\ (\E k \in DOMAIN face : PresentOutOfRange(face[k], src.lines)) =>
           (~obj_outcome.report.valid /\ FaceIndexIssue(obj_outcome.report, i))
      /\ (\A k \in DOMAIN face : face[k][1] # "" /\ PresentAllInRange(face[k], src.lines)) =>
           ~FaceIndexIssue(obj_outcome.report, i)
      /\ (\E k \in DOMAIN face : face[k][1] = "") =>
           /\ ~obj_outcome.report.valid
           /\ \E k \in DOMAIN obj_outcome.report.issues :
                obj_outcome.report.issues[k] = Issue("Vertex index out of range", i, 0)
C20_Witness ==
  /\ ObjChecked
  /\ Len(ObjFaceLines(src.lines)) = 2
  /\ ObjFaceLines(src.lines)[1].toks = << <<"1","1","1">>, <<"2","","1">>, <<"","1">> >>
  /\ ObjFaceLines(src.lines)[2].toks = << <<"1","1">>, <<"2","2">>, <<"3","3">> >>
  /\ FaceIndexIssue(obj_outcome.report, 1)
  /\ ~FaceIndexIssue(obj_outcome.report, 2)
  /\ Len(obj_outcome.report.issues) = 1

\* C21: the validator's entry point dispatches on the file extension (taken
\* without regard to case): .obj to source mode, .cobj to binary mode, any
\* other extension refused with status 1; and its exit status is 0 if and
\* only if the validating function returned a report whose valid flag is true.
C21_DispatchAndExitStatus ==
  vmain.ran =>
    /\ vmain.mode = "source" =>
         /\ vmain.suffix \in {".obj", ".OBJ"}
         /\ \E f \in FailPoints(vmain.file) : vmain.outcome = validate_obj_file(vmain.file, f)
    /\ vmain.mode = "binary" =>
         /\ vmain.suffix = ".cobj"
         /\ vmain.outcome = Returned(validate_cobj_file(vmain.file))
    /\ vmain.suffix \notin {".obj", ".OBJ", ".cobj"} => (vmain.mode = "none" /\ vmain.exit = 1)
    /\ vmain.mode = "none" => vmain.exit = 1
    /\ vmain.exit \in {0, 1}
    /\ vmain.exit = 0 <=>
         (vmain.mode # "none" /\ vmain.outcome.raised = "" /\ vmain.outcome.report.valid)
C21_Witness ==
  /\ vmain.ran
  /\ vmain.suffix = ".obj"
  /\ vmain.mode = "source"
  /\ vmain.exit = 0
  /\ vmain.outcome.report.valid
  /\ HasWarning(vmain.outcome.report, "Not unit length")

\* The tangents have been calculated for the welded arrays.
TangentsDone == pc \in {"aabb", "pack", "makedirs", "open", "write_header",
                        "write_vertex", "write_index", "returned_true"}
Finite3(v) == \A c \in 1..3 : v[c].k = "fin"
\* The squared length of a tangent of components n / sqrt(d2), as a rational.
LengthSq(t) ==
  XAdd(XAdd(Rat(t[1].n * t[1].n, t[1].d2), Rat(t[2].n * t[2].n, t[2].d2)),
       Rat(t[3].n * t[3].n, t[3].d2))
\* | |t| - 1 | <= 1e-3, on the squared length: 0.999^2 <= |t|^2 <= 1.001^2.
UnitLength(t) ==
  /\ Finite3(t)
  /\ 998001 * LengthSq(t).d <= 1000000 * LengthSq(t).n
  /\ 1000000 * LengthSq(t).n <= 1002001 * LengthSq(t).d
\* | t . n | <= 1e-3 for a tangent whose non-zero components share one d2 and
\* a normal of integer components: (sum of t[c].n * n[c].n)^2 * 10^6 <= d2.
CommonD2(t) == SetMax({t[c].d2 : c \in 1..3})
DotNum(t, n) == t[1].n * n[1].n + t[2].n * n[2].n + t[3].n * n[3].n
Orthogonal(t, n) ==
  /\ Finite3(t)
  /\ Finite3(n)
  /\ \A c \in 1..3 : t[c].n # 0 => t[c].d2 = CommonD2(t)
  /\ DotNum(t, n) * DotNum(t, n) * 1000000 <= CommonD2(t)

\* C22: for every welded vertex array that calculate_tangents_bitangents
\* processes, whatever the normals (unit or not) and the UV mapping, each
\* returned tangent has length 1 within 1e-3 and a dot product with its
\* vertex's normal within 1e-3 of zero.
C22_TangentsUnitAndOrthogonal ==
  TangentsDone =>
    \A i \in DOMAIN tangents :
      UnitLength(tangents[i]) /\ Orthogonal(tangents[i], final_vertices[i].norm)

\* C23: whenever compile_mesh reaches the bounding-volume step the welded
\* vertex array is non-empty: a source that passed the empty-geometry check
\* never leads to an AABB reduction over zero vertices.
C23_AabbOverVertices ==
  pc = "aabb" => final_vertices # <<>>

\* The position field of a reference token, and the vertex welded for it.
PositionField(tok) == Fields(tok)[1]
WeldedFor(tok) == final_vertices[vertex_map[tok] + 1]

\* C24: every welded vertex takes its position from the source position array
\* at the token's position index, unconditionally: no vertex is welded for a
\* token with an empty position field, and a zero position index reads the
\* array (at index 0 - 1, its last element) like any other.
C24_PositionUnconditional ==
  WeldedOK =>
    \A tok \in DOMAIN vertex_map :
      /\ PositionField(tok) # ""
      /\ WeldedFor(tok).pos = ListAt(temp_positions, IntOf(PositionField(tok)) - 1)

\* The reference tokens of the retained faces among the first n face lines, in
\* file order, and the distinct tokens of a sequence in order of first
\* appearance. A quad's fan (0,1,2),(0,2,3) meets its corners in the order
\* 0,1,2,3, the order of the face line itself.
RECURSIVE RetainedTokens(_)
RetainedTokens(n) ==
  IF n = 0 THEN <<>>
  ELSE RetainedTokens(n - 1) \o (IF Len(face_lines[n]) \in {3, 4} THEN face_lines[n] ELSE <<>>)
RECURSIVE FirstAppearance(_)
FirstAppearance(toks) ==
  IF toks = <<>> THEN <<>>
  ELSE LET before == FirstAppearance(SubSeq(toks, 1, Len(toks) - 1))
           last == toks[Len(toks)]
       IN IF last \in Range(before) THEN before ELSE Append(before, last)

C25_State ==
  WeldedOK =>
    LET order == FirstAppearance(RetainedTokens(fidx - 1)) IN
    /\ DOMAIN vertex_map = Range(order)
    /\ \A k \in DOMAIN order : vertex_map[order[k]] = k - 1
    /\ Len(final_vertices) = Len(order)
    /\ {vertex_map[tok] : tok \in DOMAIN vertex_map} = 0 .. (Len(final_vertices) - 1)
C25_Step ==
  pc' # "start" =>
    \A tok \in DOMAIN vertex_map :
      tok \in DOMAIN vertex_map' /\ vertex_map'[tok] = vertex_map[tok]
\* C25: welded vertices are numbered in order of first appearance. With the
\* faces processed in file order and quads in fan order, the k-th distinct
\* reference token met among the retained faces has welded index k-1; an
\* index once assigned never changes; and the assigned indices are exactly
\* 0..vertex_count-1.
C25_FirstAppearanceOrder == []C25_State /\ [][C25_Step]_vars
C25_Witness ==
  /\ Produced
  /\ Len(face_lines) = 2
  /\ Len(face_lines[1]) = 5
  /\ Len(face_lines[2]) = 4
  /\ Cardinality(DOMAIN vertex_map) = 4
  /\ vertex_map[face_lines[2][4]] = 3
  /\ HeaderVertexCount(out_file) = 4

\* The accumulated tangent of welded vertex i (1-based) and whether the
\* Gram-Schmidt step sends it to the dominant-axis fallback.
Accumulated(i) ==
  Accumulate(Positions(final_vertices), UVs(final_vertices), final_indices, 1, i - 1)
TakesFallback(i) == ~NormAboveEps(TOrtho(Accumulated(i), final_vertices[i].norm))

\* C26: tangent fallback. For every vertex whose orthogonalized accumulated
\* tangent is not greater than 1e-6 in magnitude, the dominant-axis branch
\* yields a finite unit tangent perpendicular to the vertex normal, for every
\* normal the source may supply.
C26_FallbackUnitAndOrthogonal ==
  TangentsDone =>
    \A i \in DOMAIN tangents :
      TakesFallback(i) =>
        UnitLength(tangents[i]) /\ Orthogonal(tangents[i], final_vertices[i].norm)

\* A binary whose first four bytes are not the magic constant, and a binary
\* with its version field replaced.
BadMagic(file) == file.exists /\ (file.words = <<>> \/ file.words[1] # SWord("CGMF"))
WithVersion(file, v) == FileOf([file.words EXCEPT ![2] = U32(v)])

\* C27: in binary-file mode a magic mismatch is a hard fail: the report is
\* invalid with exactly one issue, no warning and empty stats, so neither the
\* version nor the counts, the AABB or the file size were examined; a version
\* other than 1 alone only adds a warning, and every later check runs as it
\* does on the same file with version 1.
C27_MagicHardVersionSoft ==
  Validated =>
    /\ BadMagic(checked) =>
         /\ ~report.valid
         /\ Len(report.issues) = 1
         /\ report.issues[1].kind = "Invalid magic number"
         /\ report.warnings = <<>>
         /\ report.stats = NoStats
    /\ (checked.exists /\ ~BadMagic(checked) /\ Len(checked.words) >= 2
          /\ checked.words[2] # U32(1)) =>
         LET same == validate_cobj_file(WithVersion(checked, 1)) IN
         /\ report.warnings
              = <<Issue("Unexpected version", checked.words[2].n, 0)>> \o same.warnings
         /\ report.issues = same.issues
         /\ report.stats = same.stats
         /\ report.valid = same.valid
C27_Witness ==
  /\ Validated
  /\ checked.exists
  /\ ~BadMagic(checked)
  /\ Len(checked.words) >= 2
  /\ checked.words[2] = U32(2)
  /\ report.stats # NoStats
  /\ HasWarning(report, "Unexpected version")
  /\ HasIssue(report, "Invalid AABB")
  /\ HasIssue(report, "Zero indices in header")

\* C28: source-validator/compiler agreement. For every source on which
\* validate_obj_file returns valid == true, compile_mesh completes
\* successfully and writes an output file (a destination path without a
\* directory part, which fails whatever the source, set aside).
C28_ValidSourceCompiles ==
  (ObjReturned /\ obj_outcome.report.valid /\ Finished) =>
    (Produced \/ DirectoryFailure(pc, exc))

\* The index words of a produced file, after the header and the vertices.
FileIndexWords(f) ==
  SubSeq(f.words,
         (calcsize(header_format) + HeaderVertexCount(f) * calcsize(vertex_format))
           \div WordBytes + 1,
         Len(f.words))

\* C29: after the welder has processed any sequence of faces, every value in
\* the index buffer is a valid index into the welded vertex array
\* (0 <= index < vertex_count), so the index array of every produced binary
\* references only vertices present in its vertex array.
C29_IndicesInRange ==
  /\ WeldedOK =>
       \A i \in DOMAIN final_indices :
         0 <= final_indices[i] /\ final_indices[i] < Len(final_vertices)
  /\ Produced =>
       /\ Len(FileIndexWords(out_file)) = HeaderIndexCount(out_file)
       /\ \A i \in DOMAIN FileIndexWords(out_file) :
            /\ FileIndexWords(out_file)[i].ty = "I"
            /\ 0 <= FileIndexWords(out_file)[i].n
            /\ FileIndexWords(out_file)[i].n < HeaderVertexCount(out_file)
C29_Witness ==
  /\ Produced
  /\ Len(face_lines) = 2
  /\ Len(final_vertices) = 4
  /\ Len(final_indices) = 9
  /\ FileIndexWords(out_file)[9].n = 3

\* C30: build pipeline gating. For an asset the run compiles (not skipped as
\* up to date) whose compile step failed in any way, the EmptyGeometry return
\* and a stale geometry.cobj at the destination included, the pipeline counts
\* an error, does not add the asset to compiled_assets, writes no build
\* metadata for it, and the run returns 1 without generating the asset index.
C30_PipelineGating ==
  Failed =>
    /\ pipe.compiled_assets = <<>>
    /\ ~pipe.metadata
    /\ ~pipe.index
    /\ pipe.ret # 0
    /\ pipe.stage \in {"loop_end", "returned"} => pipe.error_count = 1
    /\ pipe.stage = "returned" => pipe.ret = 1
C30_Witness ==
  /\ pipe.stage = "returned"
  /\ pc = "returned_false"
  /\ out_file = StaleFile
  /\ exit_code = 0
  /\ pipe.error_count = 1
  /\ pipe.ret = 1
  /\ ~pipe.index

====
